---- MODULE Spec2Model ----
(***************************************************************************)
(* Model of narr (main.go): a pipeline that attaches to a Chrome debugging *)
(* session, listens to response events, keeps the URLs that isAudioURL     *)
(* accepts, rewrites them with toDownloadableURL and hands download jobs   *)
(* to a pool of 8 workers.                                                 *)
(*                                                                         *)
(* A Go string is modelled as a sequence of tokens.  The delimiters of     *)
(* net/url (":", "/", "?", "#") are tokens of their own, "%zz" stands for  *)
(* an invalid percent escape, and every other token is a run of ordinary   *)
(* characters.                                                             *)
(***************************************************************************)
EXTENDS Bags, FiniteSets, Integers, Sequences, TLC

(***************************************************************************)
(* strings: the helpers of package strings that main.go and net/url use    *)
(***************************************************************************)
Tail0(s, i) == SubSeq(s, i, Len(s))

\* strings.Contains(s, substr)
Contains(s, substr) ==
    \E i \in 1..(Len(s) - Len(substr) + 1) : SubSeq(s, i, i + Len(substr) - 1) = substr

\* strings.HasPrefix(s, prefix)
HasPrefix(s, prefix) ==
    /\ Len(s) >= Len(prefix)
    /\ SubSeq(s, 1, Len(prefix)) = prefix

\* strings.Index for a one-character separator, 0 when absent
IndexOf(s, c) ==
    IF \E i \in 1..Len(s) : s[i] = c
    THEN CHOOSE i \in 1..Len(s) : s[i] = c /\ \A j \in 1..(i - 1) : s[j] # c
    ELSE 0

\* strings.LastIndex for a one-character separator, 0 when absent
LastIndexOf(s, c) ==
    IF \E i \in 1..Len(s) : s[i] = c
    THEN CHOOSE i \in 1..Len(s) : s[i] = c /\ \A j \in (i + 1)..Len(s) : s[j] # c
    ELSE 0

\* strings.Count for a one-character separator
CountOf(s, c) == Cardinality({i \in 1..Len(s) : s[i] = c})

\* strings.Cut(s, sep): before, after, found
Cut(s, c) ==
    LET i == IndexOf(s, c) IN
    IF i = 0 THEN [before |-> s, after |-> <<>>, found |-> FALSE]
    ELSE [before |-> SubSeq(s, 1, i - 1), after |-> Tail0(s, i + 1), found |-> TRUE]

(***************************************************************************)
(* The character classes net/url distinguishes.                            *)
(***************************************************************************)
\* runs that start with a letter and hold only letters and dots: getScheme
\* passes over them at any position
SchemeStartTokens == {"https", "HTTPS", "foo", "bar", "range", "video", "t",
                      "media.example", "cdn.example", "manifest.mpd"}
\* runs that start with a digit and hold only digits and "-": getScheme
\* passes over them except at position 0
SchemeInnerTokens == {"8080", "1023", "2047", "9", "0-"}
\* runs of decimal digits: what validOptionalPort accepts after the colon
DigitTokens == {"8080", "1023", "2047", "9"}
BadEscape    == "%zz"
\* the percent escape of "#", a valid one
HashEscape   == "%23"

\* strings.ToLower
ToLower(s) == [i \in 1..Len(s) |-> IF s[i] = "HTTPS" THEN "https" ELSE s[i]]

\* The literal "/range/0-" of isAudioURL
RangeMarker == <<"/", "range", "/", "0-">>

\* isAudioURL: strings.Contains over the whole URL string
isAudioURL(u) == Contains(u, RangeMarker)


(***************************************************************************)
(* net/url as toDownloadableURL uses it: url.Parse, the assignment to      *)
(* u.Path, and URL.String.  No token stands for "@" or "[", so the      *)
(* userinfo and IPv6 branches of parseAuthority are never entered.         *)
(***************************************************************************)
NoURL == [ok |-> FALSE, Scheme |-> <<>>, Opaque |-> <<>>, Host |-> <<>>,
          Path |-> <<>>, ForceQuery |-> FALSE, RawQuery |-> <<>>,
          Fragment |-> <<>>, RawFragment |-> <<>>, OmitHost |-> FALSE]

\* getScheme: the scheme before the first ":", if the characters before it
\* may form one
getScheme(rawURL) ==
    LET stops(i) == \/ rawURL[i] \notin (SchemeStartTokens \cup SchemeInnerTokens)
                    \/ (rawURL[i] \in SchemeInnerTokens /\ i = 1)
        hit == {i \in 1..Len(rawURL) : stops(i)}
    IN  IF hit = {} THEN [ok |-> TRUE, scheme |-> <<>>, path |-> rawURL]
        ELSE LET k == CHOOSE i \in hit : \A j \in hit : i <= j IN
             IF rawURL[k] = ":"
             THEN IF k = 1
                  THEN [ok |-> FALSE, scheme |-> <<>>, path |-> <<>>]
                  ELSE [ok |-> TRUE, scheme |-> SubSeq(rawURL, 1, k - 1),
                        path |-> Tail0(rawURL, k + 1)]
             ELSE [ok |-> TRUE, scheme |-> <<>>, path |-> rawURL]

\* validOptionalPort: "" or ":" followed by digits only
validOptionalPort(port) ==
    \/ port = <<>>
    \/ /\ port[1] = ":"
       /\ \A i \in 2..Len(port) : port[i] \in DigitTokens

\* unescape, modes encodePath and encodeFragment: fails on an invalid
\* percent escape
unescapeOK(s) == \A i \in 1..Len(s) : s[i] # BadEscape

\* unescape, mode encodeHost: an escape of an ASCII character below 0x80
\* other than "%25" is an error too
unescapeHostOK(s) == \A i \in 1..Len(s) : s[i] \notin {BadEscape, HashEscape}

\* unescape: the string with its percent escapes decoded
unescape(s) == [i \in 1..Len(s) |-> IF s[i] = HashEscape THEN "#" ELSE s[i]]

\* escape, modes encodePath and encodeFragment: of the characters the
\* tokens stand for, shouldEscape is true of "#" alone
escape(s) == [i \in 1..Len(s) |-> IF s[i] = "#" THEN HashEscape ELSE s[i]]

\* validEncoded: no character that has to be escaped
validEncoded(s) == \A i \in 1..Len(s) : s[i] # "#"

\* parseHost (through parseAuthority, without userinfo)
parseHostOK(host) ==
    /\ LET i == LastIndexOf(host, ":") IN
       i # 0 => validOptionalPort(Tail0(host, i))
    /\ unescapeHostOK(host)

\* setPath: Path holds the decoded path; RawPath stays empty, since
\* escape(unescape(p)) = p for every p that parse hands over
setPath(u, p) == [u EXCEPT !.Path = unescape(p)]

\* setFragment: Fragment holds the decoded fragment, RawFragment the
\* original when it is not the default encoding of Fragment
setFragment(u, f) ==
    [u EXCEPT !.Fragment = unescape(f),
              !.RawFragment = IF escape(unescape(f)) = f THEN <<>> ELSE f]

\* EscapedPath, with RawPath empty
EscapedPath(u) == escape(u.Path)

\* EscapedFragment
EscapedFragment(u) ==
    IF /\ u.RawFragment # <<>>
       /\ validEncoded(u.RawFragment)
       /\ unescape(u.RawFragment) = u.Fragment
    THEN u.RawFragment
    ELSE escape(u.Fragment)

\* parse(rawURL, viaRequest = false)
parse(rawURL) ==
    LET sch == getScheme(rawURL) IN
    IF ~sch.ok THEN NoURL ELSE
    LET Scheme == ToLower(sch.scheme)
        rest0  == sch.path
        force  == /\ Len(rest0) > 0
                  /\ rest0[Len(rest0)] = "?"
                  /\ CountOf(rest0, "?") = 1
        cutq   == Cut(rest0, "?")
        rest1  == IF force THEN SubSeq(rest0, 1, Len(rest0) - 1) ELSE cutq.before
        query  == IF force THEN <<>> ELSE cutq.after
        base   == [NoURL EXCEPT !.ok = TRUE, !.Scheme = Scheme,
                                !.ForceQuery = force, !.RawQuery = query]
    IN
    IF ~HasPrefix(rest1, <<"/">>) /\ Scheme # <<>>
    THEN [base EXCEPT !.Opaque = rest1]
    ELSE IF /\ ~HasPrefix(rest1, <<"/">>)
            /\ Contains(Cut(rest1, "/").before, <<":">>)
    THEN NoURL
    ELSE IF /\ (Scheme # <<>> \/ ~HasPrefix(rest1, <<"/", "/", "/">>))
            /\ HasPrefix(rest1, <<"/", "/">>)
    THEN LET auth0 == Tail0(rest1, 3)
             i     == IndexOf(auth0, "/")
             authority == IF i > 0 THEN SubSeq(auth0, 1, i - 1) ELSE auth0
             rest2     == IF i > 0 THEN Tail0(auth0, i) ELSE <<>>
         IN  IF ~parseHostOK(authority) THEN NoURL
             ELSE IF ~unescapeOK(rest2) THEN NoURL
             ELSE setPath([base EXCEPT !.Host = authority], rest2)
    ELSE IF ~unescapeOK(rest1) THEN NoURL
    ELSE setPath([base EXCEPT !.OmitHost =
                                 (Scheme # <<>> /\ HasPrefix(rest1, <<"/">>))],
                 rest1)

\* url.Parse: cut off the fragment, parse the rest, set the fragment
Parse(rawURL) ==
    LET c   == Cut(rawURL, "#")
        url == parse(c.before)
    IN  IF ~url.ok THEN NoURL
        ELSE IF c.after = <<>> THEN url
        ELSE IF ~unescapeOK(c.after) THEN NoURL
        ELSE setFragment(url, c.after)

\* URL.String
String(u) ==
    LET s1 == IF u.Scheme # <<>> THEN u.Scheme \o <<":">> ELSE <<>>
        authority ==
            IF u.Scheme # <<>> \/ u.Host # <<>>
            THEN IF u.OmitHost /\ u.Host = <<>> THEN <<>>
                 ELSE (IF u.Host # <<>> \/ u.Path # <<>> THEN <<"/", "/">> ELSE <<>>)
                      \o u.Host
            ELSE <<>>
        path == EscapedPath(u)
        slash == IF path # <<>> /\ path[1] # "/" /\ u.Host # <<>> THEN <<"/">> ELSE <<>>
        dot == IF s1 \o authority \o slash = <<>>
                  /\ Contains(Cut(path, "/").before, <<":">>)
               THEN <<".", "/">> ELSE <<>>
        s2 == IF u.Opaque # <<>> THEN s1 \o u.Opaque
              ELSE s1 \o authority \o slash \o dot \o path
        s3 == IF u.ForceQuery \/ u.RawQuery # <<>>
              THEN s2 \o <<"?">> \o u.RawQuery ELSE s2
    IN  IF u.Fragment # <<>> THEN s3 \o <<"#">> \o EscapedFragment(u) ELSE s3

\* a toDownloadableURL that goes on after a parse error
toDownloadableNeverFatal(audioURL) == FALSE

\* toDownloadableURL reaches log.Fatal exactly when url.Parse fails
toDownloadableFatal(audioURL) == ~Parse(audioURL).ok

\* toDownloadableURL: parse, clear the path, print
toDownloadableURL(audioURL) == String([Parse(audioURL) EXCEPT !.Path = <<>>])


(***************************************************************************)
(* Bounds of the model and constants of the program                        *)
(***************************************************************************)
\* queue.NewPool(8)
PoolSize == 8
\* backoff.NewConstantBackOff(5*time.Second)
RetryDelay == 5
\* connect attempts explored
MaxAttempts == 4
\* events of a run with mixed URLs
MaxEvents == 3
\* events of a burst of segment URLs beyond the size of the pool
BurstExtra == 1
\* events of a burst whose servers stay silent, beyond the size of the pool
SilentExtra == 2
\* distinct values rand.Int() returns in a run with segments of two sources
MaxRand == 2
\* reads a response body takes at most
MaxBlocks == 2

(***************************************************************************)
(* The URLs the browser reports                                            *)
(***************************************************************************)
SegmentURL   == <<"https", ":", "/", "/", "media.example", "/", "foo", "/",
                  "range", "/", "0-", "1023", "?", "id=5">>
ManifestURL  == <<"https", ":", "/", "/", "media.example", "/", "video", "/",
                  "manifest.mpd">>
\* a segment of another source
OtherSegmentURL == <<"https", ":", "/", "/", "cdn.example", ":", "8080", "/",
                     "bar", "/", "range", "/", "0-", "2047", "?", "id=7">>
\* a segment URL with an invalid escape in its path
BadSegmentURL == <<"https", ":", "/", "/", "media.example", "/", "range", "/",
                   "0-", "%zz">>
\* a URL without the marker that url.Parse rejects (missing protocol scheme)
BadOtherURL  == <<":", "/", "/", "media.example", "/", "video">>

EventURLs == {SegmentURL, ManifestURL, BadSegmentURL, BadOtherURL}

\* What isAudioURL and toDownloadableURL do with each URL the main loop can
\* receive (the zero value "" included), computed once
Handled ==
    [u \in EventURLs \cup {OtherSegmentURL, <<>>} |->
        [audio |-> isAudioURL(u),
         fatal |-> toDownloadableFatal(u),
         url   |-> toDownloadableURL(u)]]

\* One run's environment: how many connect attempts are followed, the URLs
\* the session may report, how many events it reports, the values rand.Int()
\* may return, how many reads a response body may take, whether the pool,
\* the file system and the HTTP server may return errors, how the servers
\* keep pace with the timeout the pool sets for a task ("prompt": every
\* download is over before it; "silent": no GET is ever answered; "any"),
\* and the files the working directory holds at the start.
\* a file an earlier run of the program has left behind
OldFile == << [url |-> <<"old">>, status |-> 200, n |-> 1] >>
NoFiles == << >>

FlakyEndpoint ==
    [attempts |-> MaxAttempts, urls |-> {SegmentURL, ManifestURL},
     events |-> 1, rands |-> {1}, faults |-> TRUE, servers |-> "any",
     sizes |-> 1..MaxBlocks, disk |-> (<<"DL-", 1>> :> OldFile)]
MixedEvents ==
    [attempts |-> 1,
     urls |-> EventURLs,
     events |-> MaxEvents, rands |-> {1, 2}, faults |-> TRUE,
     servers |-> "prompt", sizes |-> {1}, disk |-> NoFiles]
SegmentBurst ==
    [attempts |-> 1, urls |-> {SegmentURL},
     events |-> PoolSize + BurstExtra, rands |-> {1}, faults |-> FALSE,
     servers |-> "prompt", sizes |-> {0}, disk |-> NoFiles]
SilentBurst ==
    [attempts |-> 1, urls |-> {SegmentURL},
     events |-> PoolSize + SilentExtra, rands |-> {1}, faults |-> FALSE,
     servers |-> "silent", sizes |-> {1}, disk |-> NoFiles]
\* one segment of each of two sources, in either order or one of them twice
PairURLs == {SegmentURL, OtherSegmentURL}
SegmentPair ==
    [attempts |-> 1, urls |-> PairURLs,
     events |-> Cardinality(PairURLs), rands |-> 1..MaxRand, faults |-> FALSE,
     servers |-> "any", sizes |-> 1..MaxBlocks, disk |-> NoFiles]

Inputs == {FlakyEndpoint, MixedEvents, SegmentBurst, SilentBurst, SegmentPair}

VARIABLES
    input,      \* the environment of this run, fixed at Init
    mainPc,     \* where main() is: connect, subscribe, enable, navigate, loop
                \* (at the receive from urls), handle (in the body of the loop)
    exit,       \* "none" while the process runs, else what called log.Fatal
    attempts,   \* calls of retryFunc so far
    failures,   \* calls of retryFunc that returned an error
    waited,     \* seconds backoff.Retry has slept
    lsn,        \* the goroutine of listen: "off", "wait" (select) or "send"
    held,       \* the URL the listener is sending on the channel urls
    reported,   \* history: URLs Recv has returned
    consumed,   \* history: URLs the main loop has received from urls
    recvErrs,   \* history: calls of Recv that returned an error
    spawned,    \* goroutines of enqueueDownload that have not called QueueTask
    queued,     \* tasks in the pool not yet taken by a worker
    running,    \* tasks whose download is in progress, with the position in
                \* download and whether a worker of the pool waits for it
    rejected,   \* history: jobs whose QueueTask returned an error
    created,    \* history: jobs handed to enqueueDownload
    started,    \* history: jobs whose download was called
    outcomes,   \* history: what download returned, per job
    files,      \* the working directory: path -> content
    logged,     \* history: errors of enqueueDownload the main loop has logged
    fn          \* a single call of the classifier and the transformer

vars == <<input, mainPc, exit, attempts, failures, waited, lsn, held, reported,
          consumed, recvErrs, spawned, queued, running, rejected, created, started,
          outcomes, files, logged, fn>>

connVars == <<attempts, failures, waited>>
lsnVars  == <<lsn, held, reported, consumed, recvErrs>>
poolVars == <<spawned, queued, running, rejected, created, started, outcomes, files>>

Job(u, r) == [url |-> u, path |-> <<"DL-", r>>]

\* a fatal error that ends the goroutine it occurs in and lets the others
\* go on
RunningAfterFatal == TRUE

\* log.Fatal is os.Exit(1): every goroutine is gone and no deferred call
\* runs
Running == exit = "none"

FnOff == [pc |-> "off", arg |-> <<>>, audio |-> FALSE, out |-> <<>>, again |-> <<>>]

Init ==
    /\ input \in Inputs
    /\ mainPc = "connect"
    /\ exit = "none"
    /\ attempts = 0 /\ failures = 0 /\ waited = 0
    /\ lsn = "off" /\ held = <<>>
    /\ reported = <<>> /\ consumed = <<>> /\ recvErrs = 0
    /\ spawned = EmptyBag /\ queued = EmptyBag /\ running = EmptyBag
    /\ rejected = EmptyBag /\ created = EmptyBag /\ started = EmptyBag
    /\ outcomes = {}
    /\ files = input.disk
    /\ logged = 0
    /\ fn = FnOff

(***************************************************************************)
(* Session Connector: main.go 24-40 and connectToChromeDebugger            *)
(***************************************************************************)
\* connectToChromeDebugger: TRUE when it returns a client. devt.Get may
\* fail, then devt.Create is tried; rpcc.DialContext must succeed.
connectToChromeDebugger(getOK, createOK, dialOK) ==
    /\ (getOK \/ createOK)
    /\ dialOK

\* a policy that gives up at the third failure
RetryStopsAfterThree(n) == n >= 3

\* The ConstantBackOff never tells backoff.Retry to stop
RetryStops(n) == FALSE

\* One round of backoff.Retry: call retryFunc; on an error sleep and go on,
\* or give up and reach log.Fatal when the policy stops
Connect ==
    /\ Running /\ mainPc = "connect"
    /\ attempts < input.attempts
    /\ \E getOK, createOK, dialOK \in BOOLEAN :
         /\ attempts' = attempts + 1
         /\ IF connectToChromeDebugger(getOK, createOK, dialOK)
            THEN /\ mainPc' = "subscribe"
                 /\ UNCHANGED <<failures, waited, exit>>
            ELSE /\ failures' = failures + 1
                 /\ IF RetryStops(attempts + 1)
                    THEN /\ exit' = "connect"
                         /\ UNCHANGED waited
                    ELSE /\ waited' = waited + RetryDelay
                         /\ UNCHANGED exit
                 /\ UNCHANGED mainPc
    /\ UNCHANGED <<input, lsnVars, poolVars, logged, fn>>

(***************************************************************************)
(* Bring-up: main.go 42-66                                                 *)
(***************************************************************************)
\* a bring-up call inside the function backoff.Retry retries: an error
\* leads back to the connector
BringUpRetries(step, next, ok) ==
    /\ Running /\ mainPc = step
    /\ mainPc' = IF ok THEN next ELSE "connect"
    /\ UNCHANGED exit

\* One bring-up call: on an error log.Fatal, else go on to the next step
BringUp(step, next, ok) ==
    /\ Running /\ mainPc = step
    /\ IF ok THEN mainPc' = next /\ UNCHANGED exit
             ELSE exit' = step /\ UNCHANGED mainPc

\* chrome.Network.ResponseReceived(ctx)
Subscribe ==
    /\ \E ok \in BOOLEAN : BringUp("subscribe", "enable", ok)
    /\ UNCHANGED <<input, connVars, lsnVars, poolVars, logged, fn>>

\* chrome.Network.Enable(ctx, ...)
Enable ==
    /\ \E ok \in BOOLEAN : BringUp("enable", "navigate", ok)
    /\ UNCHANGED <<input, connVars, lsnVars, poolVars, logged, fn>>

\* chrome.Page.Navigate(ctx, navArgs), then NewPool and the call of listen,
\* which starts the listener goroutine
Navigate ==
    /\ \E ok \in BOOLEAN :
         /\ BringUp("navigate", "loop", ok)
         /\ lsn' = IF ok THEN "wait" ELSE lsn
    /\ UNCHANGED <<input, connVars, held, reported, consumed, recvErrs, poolVars, logged, fn>>


(***************************************************************************)
(* Event Listener: listen, main.go 78-96                                   *)
(***************************************************************************)
\* a listener whose send does not wait for the main loop: the event is lost
\* when the loop is not there to take it
RecvLossy ==
    /\ Running /\ lsn = "wait"
    /\ Len(reported) < input.events
    /\ \E u \in input.urls, taken \in BOOLEAN :
         /\ reported' = Append(reported, u)
         /\ held' = IF taken THEN u ELSE <<>>
         /\ lsn' = IF taken THEN "send" ELSE "wait"
    /\ UNCHANGED <<input, mainPc, exit, connVars, consumed, recvErrs, poolVars, logged, fn>>

\* <-responseReceived.Ready(), Recv returns an event: the goroutine goes on
\* to send its URL on the unbuffered channel urls
Recv ==
    /\ Running /\ lsn = "wait"
    /\ Len(reported) < input.events
    /\ \E u \in input.urls :
         /\ reported' = Append(reported, u)
         /\ held' = u
    /\ lsn' = "send"
    /\ UNCHANGED <<input, mainPc, exit, connVars, consumed, recvErrs, poolVars, logged, fn>>

\* a listener that logs the error and sends the URL of the event it did
\* not get
RecvErrorIgnored ==
    /\ Running /\ lsn = "wait"
    /\ recvErrs' = recvErrs + 1
    /\ lsn' = "send"
    /\ held' = <<>>
    /\ UNCHANGED <<input, mainPc, exit, connVars, reported, consumed, poolVars, logged, fn>>

\* Recv returns an error: log.Fatal
RecvError ==
    /\ Running /\ lsn = "wait"
    /\ recvErrs' = recvErrs + 1
    /\ exit' = "stream"
    /\ UNCHANGED <<input, mainPc, connVars, lsn, held, reported, consumed, poolVars, logged, fn>>

(***************************************************************************)
(* Main loop and enqueueDownload: main.go 66-75, 139-151                   *)
(***************************************************************************)
One(x) == SetToBag({x})

\* the results a call that may fail can have in this run
Results == IF input.faults THEN BOOLEAN ELSE {TRUE}

\* an enqueueDownload that submits the job from two goroutines
enqueueDownloadTwice(job) == One(job) (+) One(job)

\* an enqueueDownload that drops the job when as many jobs as the pool has
\* workers are waiting already
enqueueDownloadBounded(job) ==
    IF BagCardinality(spawned) + BagCardinality(queued) >= PoolSize
    THEN EmptyBag ELSE One(job)

\* enqueueDownload starts one goroutine for the job and returns nil
enqueueDownload(job) == One(job)

\* an enqueueDownload that calls QueueTask itself and returns its error
enqueueDownloadReturnsQueueError == IF input.faults THEN {"nil", "queue"} ELSE {"nil"}

\* what enqueueDownload returns to the main loop: nil, whatever QueueTask
\* returns in the goroutine
enqueueDownloadReturns == {"nil"}

\* The receive of the loop over listen's channel: the listener's send
\* completes and the listener goes back to its select, while main goes on
\* into the body of the loop with the URL (the last one of consumed)
MainReceive ==
    /\ Running /\ mainPc = "loop" /\ lsn = "send"
    /\ consumed' = Append(consumed, held)
    /\ lsn' = "wait"
    /\ held' = <<>>
    /\ mainPc' = "handle"
    /\ UNCHANGED <<input, exit, connVars, reported, recvErrs, poolVars, logged, fn>>

\* a loop whose enqueueDownload submits the job itself and waits until the
\* pool has a free worker for it
MainHandleWaitsForPool ==
    /\ Running /\ mainPc = "handle"
    /\ BagCardinality(spawned) + BagCardinality(queued)
           + BagCardinality(running) < PoolSize
    /\ IF ~Handled[consumed[Len(consumed)]].audio
       THEN /\ mainPc' = "loop"
            /\ UNCHANGED <<exit, spawned, created, logged>>
       ELSE IF Handled[consumed[Len(consumed)]].fatal
       THEN /\ exit' = "url"
            /\ UNCHANGED <<mainPc, spawned, created, logged>>
       ELSE \E r \in input.rands, err \in enqueueDownloadReturns :
              /\ spawned' = spawned (+) enqueueDownload(Job(Handled[consumed[Len(consumed)]].url, r))
              /\ created' = created (+) enqueueDownload(Job(Handled[consumed[Len(consumed)]].url, r))
              /\ logged' = IF err # "nil" THEN logged + 1 ELSE logged
              /\ mainPc' = "loop"
              /\ UNCHANGED exit
    /\ UNCHANGED <<input, connVars, lsnVars, queued, running,
                   rejected, started, outcomes, files, fn>>

\* The body of the loop for the URL just received: skip it unless
\* isAudioURL, rewrite it (log.Fatal when it does not parse), enqueue the
\* download under a random name and log the error enqueueDownload returns,
\* if any; then back to the receive
MainHandle ==
    /\ Running /\ mainPc = "handle"
    /\ IF ~Handled[consumed[Len(consumed)]].audio
       THEN /\ mainPc' = "loop"
            /\ UNCHANGED <<exit, spawned, created, logged>>
       ELSE IF Handled[consumed[Len(consumed)]].fatal
       THEN /\ exit' = "url"
            /\ UNCHANGED <<mainPc, spawned, created, logged>>
       ELSE \E r \in input.rands, err \in enqueueDownloadReturns :
              /\ spawned' = spawned (+) enqueueDownload(Job(Handled[consumed[Len(consumed)]].url, r))
              /\ created' = created (+) enqueueDownload(Job(Handled[consumed[Len(consumed)]].url, r))
              /\ logged' = IF err # "nil" THEN logged + 1 ELSE logged
              /\ mainPc' = "loop"
              /\ UNCHANGED exit
    /\ UNCHANGED <<input, connVars, lsnVars, queued, running,
                   rejected, started, outcomes, files, fn>>

\* The goroutine of enqueueDownload calls q.QueueTask; when that returns an
\* error the goroutine returns and the job is gone
QueueTask ==
    /\ Running
    /\ \E job \in BagToSet(spawned), ok \in Results :
         /\ spawned' = spawned (-) One(job)
         /\ IF ok THEN queued' = queued (+) One(job) /\ UNCHANGED rejected
                  ELSE rejected' = rejected (+) One(job) /\ UNCHANGED queued
    /\ UNCHANGED <<input, mainPc, exit, connVars, lsnVars, running, created,
                   started, outcomes, files, logged, fn>>

(***************************************************************************)
(* Pool workers and download: main.go 63, 141-143, 153-177                 *)
(***************************************************************************)
\* how many workers the pool has
Workers == PoolSize

\* the running tasks a worker of the pool is waiting for
Busy == [t \in {x \in DOMAIN running : x.worker} |-> running[t]]

\* a task whose closure reads the URL from a variable all tasks share, which
\* holds the URL of the latest event
StartJobSharedCapture ==
    /\ Running
    /\ BagCardinality(Busy) < Workers
    /\ \E job \in BagToSet(queued) :
         /\ queued' = queued (-) One(job)
         /\ running' = running (+) One([url |-> Handled[consumed[Len(consumed)]].url,
                                        path |-> job.path,
                                        pc |-> "create", status |-> 0,
                                        len |-> 0, off |-> 0,
                                        worker |-> TRUE])
         /\ started' = started (+) One(job)
    /\ UNCHANGED <<input, mainPc, exit, connVars, lsnVars, spawned, rejected,
                   created, outcomes, files, logged, fn>>

\* A free worker takes a queued task and calls download
StartJob ==
    /\ Running
    /\ BagCardinality(Busy) < Workers
    /\ \E job \in BagToSet(queued) :
         /\ queued' = queued (-) One(job)
         /\ running' = running (+) One([url |-> job.url, path |-> job.path,
                                        pc |-> "create", status |-> 0,
                                        len |-> 0, off |-> 0,
                                        worker |-> TRUE])
         /\ started' = started (+) One(job)
    /\ UNCHANGED <<input, mainPc, exit, connVars, lsnVars, spawned, rejected,
                   created, outcomes, files, logged, fn>>

\* a pool that waits for its task however long it takes
WaitsForTask(t) == t

\* The task as it is once the pool has given it up: the worker no longer
\* waits for it
GivenUp(t) == [t EXCEPT !.worker = FALSE]

\* The timeout the pool sets for every task is over: the worker stops
\* waiting and is free for the next task.  The task was handed a context
\* that is now done, but the closure passes it nowhere, so download goes on
JobTimeout ==
    /\ Running
    /\ input.servers # "prompt"
    /\ \E t \in BagToSet(running) :
         /\ t.worker
         /\ running' = (running (-) One(t)) (+) One(GivenUp(t))
    /\ UNCHANGED <<input, mainPc, exit, connVars, lsnVars, spawned, queued,
                   rejected, created, started, outcomes, files, logged, fn>>

\* a pool that queues a failed task again
RequeueFailed(job) == One(job)

\* what the pool puts back in its queue when a task returns an error
Requeue(job) == EmptyBag

\* a pool that cancels the tasks of its other workers when one task returns
\* an error
FinishAbortsPool(t, err) ==
    /\ running' = IF err = "none" THEN running (-) One(t) ELSE EmptyBag
    /\ outcomes' = outcomes \cup {[url |-> t.url, path |-> t.path, err |-> err,
                                   status |-> t.status]}
    /\ UNCHANGED queued

\* download returns: its task is over, and the worker, if it still waited
\* for it, is free again
Finish(t, err) ==
    /\ running' = running (-) One(t)
    /\ outcomes' = outcomes \cup {[url |-> t.url, path |-> t.path, err |-> err,
                                   status |-> t.status]}
    /\ queued' = IF err = "none" THEN queued
                 ELSE queued (+) Requeue([url |-> t.url, path |-> t.path])

\* a running task moves on inside download
Step(t, next) ==
    /\ running' = (running (-) One(t)) (+) One(next)
    /\ UNCHANGED <<outcomes, queued>>

\* A file is the sequence of its blocks.  A block holds one read of a
\* response body (block n of the body the server sent for url with status),
\* or zeros where a write went beyond the end of the file.
Block(url, status, n) == [url |-> url, status |-> status, n |-> n]
ZeroBlock == Block(<<>>, 0, 0)

\* a file os.Create has just made or truncated
EmptyFile == <<>>

\* a write of block b through a descriptor at offset off: the file is not
\* truncated, and a gap before off reads as zeros
WriteAt(f, off, b) ==
    [i \in 1..(IF Len(f) > off THEN Len(f) ELSE off + 1) |->
        IF i = off + 1 THEN b
        ELSE IF i <= Len(f) THEN f[i] ELSE ZeroBlock]

\* os.Create(toPath): creates the file or truncates the one that is there
DownloadCreate ==
    /\ Running
    /\ \E t \in BagToSet(running), ok \in Results :
         /\ t.pc = "create"
         /\ IF ok THEN /\ files' = (t.path :> EmptyFile) @@ files
                       /\ Step(t, [t EXCEPT !.pc = "get"])
                  ELSE /\ Finish(t, "create")
                       /\ UNCHANGED files
    /\ UNCHANGED <<input, mainPc, exit, connVars, lsnVars, spawned, rejected,
                   created, started, logged, fn>>

\* http.Get(fromUrl): an error, or a response whatever its status, with a
\* body of some blocks
DownloadGet ==
    /\ Running
    /\ input.servers # "silent"
    /\ \E t \in BagToSet(running),
          res \in IF input.faults THEN {0, 200, 500} ELSE {200},
          n \in input.sizes :
         /\ t.pc = "get"
         /\ IF res = 0 THEN Finish(t, "get")
            ELSE Step(t, [t EXCEPT !.pc = "copy", !.status = res, !.len = n])
    /\ UNCHANGED <<input, mainPc, exit, connVars, lsnVars, spawned, rejected,
                   created, started, files, logged, fn>>

\* One round of the loop of io.Copy(out, resp.Body): a read gives the next
\* block, which is written at the offset of this task's descriptor, or the
\* read or the write fails and download returns the error; after the last
\* block the read gives EOF and download returns nil
DownloadCopy ==
    /\ Running
    /\ \E t \in BagToSet(running), ok \in Results :
         /\ t.pc = "copy"
         /\ IF t.off = t.len
            THEN /\ Finish(t, "none")
                 /\ UNCHANGED files
            ELSE IF ok
            THEN /\ files' = [files EXCEPT ![t.path] =
                                 WriteAt(@, t.off, Block(t.url, t.status, t.off + 1))]
                 /\ Step(t, [t EXCEPT !.off = t.off + 1])
            ELSE /\ Finish(t, "copy")
                 /\ UNCHANGED files
    /\ UNCHANGED <<input, mainPc, exit, connVars, lsnVars, spawned, rejected,
                   created, started, logged, fn>>

(***************************************************************************)
(* The classifier and the transformer on their own, over every URL built   *)
(* from the parts below                                                    *)
(***************************************************************************)
Schemes     == { <<>>, <<"https", ":">>, <<"HTTPS", ":">>, <<":">> }
Authorities == { <<>>, <<"/", "/", "media.example">>,
                 <<"/", "/", "media.example", ":", "8080">>,
                 <<"/", "/", "media.example", ":", "0-">>,
                 <<"/", "/", "%zz">>, <<"/", "/", "%23">> }
Paths       == { <<>>, <<"/", "foo", "/", "range", "/", "0-", "1023">>,
                 <<"/", "video", "/", "manifest.mpd">>,
                 <<"/", "range", "/", "0-", "%zz">>,
                 <<"foo", "/", "range", "/", "0-">>,
                 <<"/", "foo", "%23", "/", "range", "/", "0-">> }
Queries     == { <<>>, <<"?">>, <<"?", "id=5">>,
                 <<"?", "r=", "/", "range", "/", "0-", "9">> }
Fragments   == { <<>>, <<"#", "t">>, <<"#", "/", "range", "/", "0-">>,
                 <<"#", "%zz">>, <<"#", "t", "#", "t">>,
                 <<"#", "t", "%23", "t">>, <<"#", "#">> }

AllURLs == { s \o a \o p \o q \o f :
             s \in Schemes, a \in Authorities, p \in Paths, q \in Queries,
             f \in Fragments }

PipelineStill == UNCHANGED <<input, mainPc, exit, connVars, lsnVars, poolVars, logged>>

\* the test main.go 67 makes on a URL
FnClassify ==
    /\ fn.pc = "classify"
    /\ fn' = [fn EXCEPT !.pc = "transform", !.audio = isAudioURL(fn.arg)]
    /\ PipelineStill

\* toDownloadableURL on the URL, whatever the classifier said
FnTransform ==
    /\ fn.pc = "transform"
    /\ fn' = IF toDownloadableFatal(fn.arg)
             THEN [fn EXCEPT !.pc = "fatal"]
             ELSE [fn EXCEPT !.pc = "again", !.out = toDownloadableURL(fn.arg)]
    /\ PipelineStill

\* toDownloadableURL on its own result
FnAgain ==
    /\ fn.pc = "again"
    /\ fn' = IF toDownloadableFatal(fn.out)
             THEN [fn EXCEPT !.pc = "fatal2"]
             ELSE [fn EXCEPT !.pc = "done", !.again = toDownloadableURL(fn.out)]
    /\ PipelineStill

FnInit ==
    /\ input = FlakyEndpoint
    /\ mainPc = "connect"
    /\ exit = "none"
    /\ attempts = 0 /\ failures = 0 /\ waited = 0
    /\ lsn = "off" /\ held = <<>>
    /\ reported = <<>> /\ consumed = <<>> /\ recvErrs = 0
    /\ spawned = EmptyBag /\ queued = EmptyBag /\ running = EmptyBag
    /\ rejected = EmptyBag /\ created = EmptyBag /\ started = EmptyBag
    /\ outcomes = {}
    /\ files = input.disk
    /\ logged = 0
    /\ \E u \in AllURLs : fn = [FnOff EXCEPT !.pc = "classify", !.arg = u]

FnNext == FnClassify \/ FnTransform \/ FnAgain

FnSpec == FnInit /\ [][FnNext]_vars

Next ==
    \/ Connect
    \/ Subscribe
    \/ Enable
    \/ Navigate
    \/ Recv
    \/ RecvError
    \/ MainReceive
    \/ MainHandle
    \/ QueueTask
    \/ StartJob
    \/ JobTimeout
    \/ DownloadCreate
    \/ DownloadGet
    \/ DownloadCopy

Spec == Init /\ [][Next]_vars

\* The Go scheduler runs every goroutine that can run: the main loop takes
\* a URL the listener offers, an admission goroutine reaches QueueTask, a
\* free worker takes a queued task, the timer of a task the pool waits
\* for fires, and os.Create returns.  Nothing in the program makes http.Get
\* or io.Copy return: the client has no timeout, the copy no deadline, and
\* download does not look at the context of the pool, so a goroutine may
\* wait in either of them for ever.  They do return in a run whose servers
\* are prompt, which is what prompt means: every download is over before
\* the timer of its task fires.
Fairness ==
    /\ WF_vars(MainReceive)
    /\ WF_vars(MainHandle)
    /\ WF_vars(QueueTask)
    /\ WF_vars(StartJob)
    /\ WF_vars(JobTimeout)
    /\ WF_vars(DownloadCreate)
    /\ WF_vars(input.servers = "prompt" /\ (DownloadGet \/ DownloadCopy))

LiveSpec == Init /\ [][Next]_vars /\ Fairness

\* The main goroutine alone is scheduled fairly, whatever the admission
\* goroutines and the pool do.
LoopSpec == Init /\ [][Next]_vars /\ WF_vars(MainReceive) /\ WF_vars(MainHandle)


(***************************************************************************)
(* Properties                                                              *)
(***************************************************************************)
Size(b) == BagCardinality(b)
Last(q) == q[Len(q)]
Sending == IF lsn = "send" THEN 1 ELSE 0
\* the path component of a URL: what follows scheme and authority, up to
\* the query
PathOf(u) == LET p == Parse(u) IN IF p.Opaque # <<>> THEN p.Opaque ELSE p.Path
Frozen == [][exit # "none" => UNCHANGED vars]_vars
\* main is at its receive, or was in the body of the loop when the process
\* ended
InLoop == mainPc \in {"loop", "handle"}
\* the body of the loop has run for the i-th URL received: main is back at
\* the receive or beyond, or the body has ended the process
BodyRan(i) == i < Len(consumed) \/ mainPc # "handle" \/ exit = "url"

\* C1 as stated: at no time do more than PoolSize (8) downloads execute.
C1_PoolBound == Size(running) <= PoolSize

\* C2: under fair scheduling and unless the process terminates, every job
\* handed to enqueueDownload reaches QueueTask, and every job in the queue
\* of the pool is started by a worker: a worker is free again when its
\* download returns or when the timeout of the pool for it is over.  A job
\* leaves the queue in no other way than by starting.  So all the jobs
\* created are started in the end, but for those QueueTask refused, the
\* case C20 supposes.
C2_AllJobsAttempted ==
    /\ (Size(spawned) > 0) ~> (Size(spawned) = 0 \/ exit # "none")
    /\ (Size(queued) > 0) ~> (Size(queued) = 0 \/ exit # "none")
    /\ [][Size(queued') < Size(queued) =>
            /\ Size(queued') = Size(queued) - 1
            /\ Size(started') = Size(started) + 1
            /\ Size(running') = Size(running) + 1]_vars
    /\ [](Size(spawned) + Size(queued) = 0 =>
            Size(started) + Size(rejected) = Size(created))

\* C2 witness: the servers never answer, and still every job of a burst of
\* more than PoolSize segment events was started; none has returned.
C2_Witness ==
    /\ exit = "none"
    /\ Size(created) = PoolSize + SilentExtra
    /\ Size(started) = Size(created)
    /\ Size(running) = Size(created)

\* C3 as stated: once main is back at its receive, or the process has
\* ended, the jobs created are as many as the consumed events whose URL
\* passes the classifier (one per qualifying event, none for the others).
C3_OneJobPerQualifyingEvent ==
    (mainPc = "loop" \/ exit # "none") =>
        Size(created) = Cardinality({i \in DOMAIN consumed : isAudioURL(consumed[i])})

\* C3 amended: one job per consumed event for which the body of the loop
\* has run and whose URL passes the classifier and parses, none for any
\* other event; a URL that passes the classifier and does not parse, once
\* the body has run for it, is the last one and ended the process; and an
\* event for which the body has not run is the last one received.
C3_OneJobPerParseableQualifyingEvent ==
    /\ Size(created) = Cardinality({i \in DOMAIN consumed :
                            /\ BodyRan(i)
                            /\ isAudioURL(consumed[i]) /\ Parse(consumed[i]).ok})
    /\ \A i \in DOMAIN consumed :
         /\ (BodyRan(i) /\ isAudioURL(consumed[i]) /\ ~Parse(consumed[i]).ok)
               => (i = Len(consumed) /\ exit = "url")
         /\ ~BodyRan(i) => (i = Len(consumed) /\ exit \in {"none", "stream"})

\* C3 witness: three events consumed, one qualifying and parseable, one not
\* qualifying, one qualifying and malformed; one job exists.
C3_Witness ==
    /\ consumed = <<SegmentURL, ManifestURL, BadSegmentURL>>
    /\ exit = "url"
    /\ Size(created) = 1

\* C4: download is started at most once per job: the starts of a job never
\* outnumber the jobs created with that URL and path, also after a failure.
C4_AtMostOnce ==
    \A j \in BagToSet(started) : CopiesIn(j, started) <= CopiesIn(j, created)

\* C4 witness: a job has failed, the pool is idle and the process runs on.
C4_Witness ==
    /\ exit = "none"
    /\ \E o \in outcomes : o.err # "none"
    /\ Size(started) >= 1
    /\ spawned = EmptyBag /\ queued = EmptyBag /\ running = EmptyBag
    /\ Len(consumed) = input.events

\* C5: what the main loop has received is a prefix of what Recv returned,
\* and the only event not yet received is the one the listener is sending.
C5_InOrderNoLoss ==
    /\ Len(consumed) <= Len(reported)
    /\ consumed = SubSeq(reported, 1, Len(consumed))
    /\ Len(reported) = Len(consumed) + Sending
    /\ lsn = "send" => held = Last(reported)

\* C5 witness: three different URLs received in the order reported while a
\* download is still running and the listener holds nothing.
C5_Witness ==
    /\ consumed = <<SegmentURL, ManifestURL, BadOtherURL>>
    /\ reported = consumed
    /\ Size(running) >= 1

\* C8: a connect failure never ends the process, every failure is followed
\* by a sleep of RetryDelay, nothing of the pipeline runs before a connect
\* attempt succeeded, and success after k failures is attempt k+1.
C8_ConnectorRetries ==
    /\ exit # "connect"
    /\ waited = failures * RetryDelay
    /\ mainPc = "connect" => (attempts = failures /\ exit = "none" /\ lsn = "off")
    /\ mainPc # "connect" => attempts = failures + 1

\* C8 witness: three failed attempts, the fourth succeeded, and the
\* pipeline has subscribed.
C8_Witness ==
    /\ mainPc = "enable"
    /\ failures = 3 /\ attempts = 4 /\ waited = 3 * RetryDelay

\* C9: after a Recv error the process is gone: the connector is not
\* re-entered, the listener sends nothing, the main loop has received only
\* URLs of successful receives, and no step follows.
C9_StreamErrorFatal ==
    /\ [](recvErrs > 0 =>
            /\ exit = "stream" /\ recvErrs = 1
            /\ InLoop /\ attempts = failures + 1
            /\ lsn = "wait" /\ held = <<>>
            /\ consumed = reported)
    /\ Frozen

\* C9 witness: the stream failed after an event had been consumed and
\* while a download was running.
C9_Witness ==
    /\ exit = "stream" /\ recvErrs = 1
    /\ Len(consumed) >= 1 /\ Size(running) >= 1

\* C10: the process ends with a malformed URL exactly when the body of the
\* loop has run for a URL that passes the classifier and does not parse; that
\* URL is the last one consumed, jobs exist only for the events before it,
\* and no step follows.  A malformed URL that does not pass the classifier
\* ends nothing.
C10_MalformedSegmentFatal ==
    /\ [](/\ exit = "url" <=>
                \E i \in DOMAIN consumed :
                    BodyRan(i) /\ isAudioURL(consumed[i]) /\ ~Parse(consumed[i]).ok
          /\ exit = "url" =>
                /\ isAudioURL(Last(consumed)) /\ ~Parse(Last(consumed)).ok
                /\ Size(created) <= Len(consumed) - 1
                /\ \A j \in BagToSet(created) :
                     \E i \in 1..(Len(consumed) - 1) :
                        /\ isAudioURL(consumed[i])
                        /\ j.url = toDownloadableURL(consumed[i]))
    /\ Frozen

\* C10 witness: a malformed URL without the marker was consumed and the
\* process went on; a malformed segment URL then ended it.
C10_Witness ==
    /\ exit = "url"
    /\ consumed = <<BadOtherURL, SegmentURL, BadSegmentURL>>
    /\ Size(created) = 1

\* C6 as stated: the classifier accepts a URL exactly when its path
\* component holds the marker /range/0-.
C6_ClassifierTestsPath ==
    (fn.pc \notin {"off", "classify"} /\ Parse(fn.arg).ok)
        => (fn.audio <=> Contains(PathOf(fn.arg), RangeMarker))

\* what C7 says of a URL and the result of toDownloadableURL on it
Stripped(arg, out) ==
    LET a == Parse(arg)
        b == Parse(out)
    IN  /\ b.ok
        /\ PathOf(out) = <<>>
        /\ b.Scheme = a.Scheme
        /\ b.Host = a.Host
        /\ b.RawQuery = a.RawQuery
        /\ b.ForceQuery = a.ForceQuery

\* C7 as stated: the result of toDownloadableURL on a parseable segment URL
\* parses, has an empty path component, keeps scheme, host with port and
\* query, and is a fixed point of toDownloadableURL.
C7_PathClearedRestKept ==
    (fn.audio /\ fn.pc \in {"again", "done", "fatal2"})
        => /\ fn.pc # "fatal2"
           /\ Stripped(fn.arg, fn.out)
           /\ fn.pc = "done" => fn.again = fn.out

\* some download has returned an error
Failed == \E o \in outcomes : o.err # "none"
\* some running task is at one of these calls of download
AtPc(pcs) == \E t \in BagToSet(running) : t.pc \in pcs

\* a step in which a call of download returns
Returns == Size(running') < Size(running)

\* C11: a download that returns (with an error or without) ends that one
\* task and nothing else: the other running tasks, the queue, the pending
\* admissions, the listener and the main loop are as before and the process
\* runs on; a failed job is not put back (every created job is pending,
\* queued, rejected or was started once); and after a failure, unless the
\* process terminates, the event the listener offers is received, a queued
\* job starts when a worker is free, a task at os.Create goes on, and a
\* task at http.Get or io.Copy can take its next step whenever the network
\* lets the call return.
C11_JobFailureContained ==
    /\ [][Returns =>
            /\ \E t \in BagToSet(running) : running' = running (-) One(t)
            /\ exit = "none" /\ exit' = "none"
            /\ UNCHANGED <<mainPc, lsnVars, spawned, queued, rejected,
                           created, started>>]_vars
    /\ [](Size(spawned) + Size(queued) + Size(rejected) + Size(started)
            = Size(created))
    /\ (Failed /\ lsn = "send") ~> (lsn = "wait" \/ exit # "none")
    /\ (Failed /\ Size(queued) > 0 /\ Size(running) < PoolSize)
          ~> (Size(queued) = 0 \/ Size(running) = PoolSize \/ exit # "none")
    /\ (Failed /\ AtPc({"create"})) ~> (~AtPc({"create"}) \/ exit # "none")
    /\ []((Failed /\ exit = "none" /\ AtPc({"get"})) => ENABLED DownloadGet)
    /\ []((Failed /\ exit = "none" /\ AtPc({"copy"})) => ENABLED DownloadCopy)

\* C11 witness: one job failed at os.Create, another one has since been
\* downloaded whole, a third one is running, all events were consumed and
\* the process runs.
C11_Witness ==
    /\ exit = "none"
    /\ Len(consumed) = MaxEvents
    /\ \E o1, o2 \in outcomes :
          o1.err = "create" /\ o2.err = "none" /\ o1.path # o2.path
    /\ Size(running) >= 1

\* C12 as stated: a job whose GET was answered with a server error status
\* has a transfer error as its outcome, never success, and the process is
\* not ended by it.
C12_ServerErrorIsTransferError ==
    /\ \A o \in outcomes : o.status >= 500 => o.err \in {"get", "copy"}
    /\ exit \notin {"create", "get", "copy"}

\* C13 as stated: the jobs created so far have pairwise distinct paths, so
\* there are as many different paths as jobs.
C13_PathsPairwiseDistinct ==
    Cardinality({j.path : j \in BagToSet(created)}) = Size(created)

\* C14 as stated: when a task at os.Create whose path is already a file in
\* the working directory takes its step, download returns the file-create
\* error (the task ends there, before http.Get) and the directory is as it
\* was.
C14_OccupiedPathFails ==
    [][\A t \in BagToSet(running) :
          (/\ t.pc = "create"
           /\ t.path \in DOMAIN files
           /\ CopiesIn(t, running') < CopiesIn(t, running))
          => /\ Size(running') < Size(running)
             /\ [url |-> t.url, path |-> t.path, err |-> "create", status |-> 0]
                    \in outcomes'
             /\ files' = files]_vars

\* C15: main can always move on, whatever the admission goroutines and
\* the pool hold: at its receive it can take the URL the listener offers,
\* and in the body of the loop it can finish the iteration (enqueueDownload
\* returns without waiting for the pool).  So the URL the listener offers
\* is received, even when no admission goroutine and no worker ever takes
\* a step again, unless the body of the loop ends the process on the URL
\* before (the listener is back at its select only once the loop has
\* received the URL).
C15_AdmissionNeverBlocksLoop ==
    /\ [](lsn = "send" => InLoop)
    /\ []((exit = "none" /\ mainPc = "loop" /\ lsn = "send") => ENABLED MainReceive)
    /\ []((exit = "none" /\ mainPc = "handle") => ENABLED MainHandle)
    /\ (lsn = "send") ~> (lsn = "wait" \/ exit = "url")

\* C15 witness: the last event of a burst was received although no job has
\* left the pool, all workers are busy and the other jobs wait.
C15_Witness ==
    /\ exit = "none" /\ lsn = "wait"
    /\ Len(consumed) = PoolSize + BurstExtra
    /\ Size(created) = PoolSize + BurstExtra
    /\ Size(running) = PoolSize /\ outcomes = {}
    /\ Size(spawned) + Size(queued) = BurstExtra

\* main is in the body of the loop with a URL that passes the classifier
\* and parses
HandlesSegment ==
    /\ exit = "none" /\ mainPc = "handle"
    /\ Handled[Last(consumed)].audio /\ ~Handled[Last(consumed)].fatal

\* C16: admission looks at no count.  Whenever the loop has received a
\* parseable segment URL, however many jobs are pending or queued, it can
\* finish the iteration and add one pending admission; every such step
\* does add one and leaves the queue and the workers alone; and the pool
\* has never more than PoolSize workers at work.  The jobs waiting are thus
\* limited by the events that arrived and by nothing else.
C16_AdmissionUnbounded ==
    /\ [](HandlesSegment =>
             ENABLED (MainHandle /\ Size(spawned') = Size(spawned) + 1))
    /\ [][(HandlesSegment /\ mainPc' # mainPc)
            => /\ Size(spawned') = Size(spawned) + 1
               /\ UNCHANGED <<queued, running>>]_vars
    /\ [](Size(Busy) <= PoolSize /\ Size(spawned) + Size(queued) <= Size(created))

\* C16 witness: all PoolSize workers are at work on the first jobs of a
\* burst, PoolSize downloads execute, and every further job of the burst
\* waits, pending or queued.
C16_Witness ==
    /\ exit = "none"
    /\ Size(running) = PoolSize /\ Size(Busy) = PoolSize
    /\ Size(spawned) + Size(queued) = SilentExtra
    /\ Size(spawned) >= 1 /\ Size(queued) >= 1

\* the job a running task or an outcome belongs to
JobOf(t) == [url |-> t.url, path |-> t.path]
\* the running tasks of job j
RunningOf(j) == {t \in BagToSet(running) : JobOf(t) = j}
\* the sum of a function of numbers over a finite set
RECURSIVE Sum(_, _)
Sum(f, S) == IF S = {} THEN 0
             ELSE LET x == CHOOSE y \in S : TRUE IN f[x] + Sum(f, S \ {x})

\* C17: the URL and the path a job was created with are what every later
\* stage sees.  Each created job has the rewritten URL of a consumed
\* segment event, and per rewritten URL there are as many jobs as such
\* events the body of the loop has run for; each of its copies is pending,
\* queued, rejected or started, and nothing else is; a running task and an
\* outcome carry the pair of a started job; and every block download has
\* written to a file is, at its own place in the body, a block of the URL
\* of a started job with the path of that file.
C17_JobKeepsItsOwnPair ==
    /\ \A j \in BagToSet(created) :
          /\ \E i \in DOMAIN consumed :
                Handled[consumed[i]].audio /\ j.url = Handled[consumed[i]].url
          /\ CopiesIn(j, spawned) + CopiesIn(j, queued) + CopiesIn(j, rejected)
                + CopiesIn(j, started) = CopiesIn(j, created)
          /\ Sum([t \in RunningOf(j) |-> CopiesIn(t, running)], RunningOf(j))
                <= CopiesIn(j, started)
    /\ \A u \in {j.url : j \in BagToSet(created)} :
          Sum([j \in BagToSet(created) |-> IF j.url = u THEN CopiesIn(j, created) ELSE 0],
              BagToSet(created))
            = Cardinality({i \in DOMAIN consumed :
                 /\ BodyRan(i) /\ Handled[consumed[i]].audio
                 /\ ~Handled[consumed[i]].fatal /\ Handled[consumed[i]].url = u})
    /\ \A b \in {spawned, queued, rejected, started} :
          BagToSet(b) \subseteq BagToSet(created)
    /\ \A t \in BagToSet(running) : JobOf(t) \in BagToSet(started)
    /\ \A o \in outcomes : JobOf(o) \in BagToSet(started)
    /\ \A p \in DOMAIN files :
          \/ p \in DOMAIN input.disk /\ files[p] = input.disk[p]
          \/ \A i \in DOMAIN files[p] :
                \/ files[p][i] = ZeroBlock
                \/ /\ files[p][i].n = i
                   /\ [url |-> files[p][i].url, path |-> p] \in BagToSet(started)

\* C17 witness: the jobs of two segment events of different sources, with
\* different names, are in io.Copy at the same time, and each has written
\* the first block of its own body to its own file.
C17_Witness ==
    /\ consumed = <<SegmentURL, OtherSegmentURL>>
    /\ \E t1, t2 \in BagToSet(running) :
          /\ t1.pc = "copy" /\ t2.pc = "copy"
          /\ t1.url = toDownloadableURL(SegmentURL)
          /\ t2.url = toDownloadableURL(OtherSegmentURL)
          /\ t1.url # t2.url /\ t1.path # t2.path
          /\ files[t1.path] = <<Block(t1.url, 200, 1)>>
          /\ files[t2.path] = <<Block(t2.url, 200, 1)>>

\* C18: the step that ends the process (a Recv error, a malformed segment
\* URL) can be taken whatever the pool holds and leaves the pending
\* admissions, the queue, the running tasks and the files as they are:
\* nothing is awaited or released first.  From then on no job is created,
\* accepted, started or finished and no file is written.
C18_NoDrainAtTermination ==
    /\ []((exit = "none" /\ InLoop /\ lsn = "wait") => ENABLED RecvError)
    /\ [][(exit = "none" /\ exit' # "none") => UNCHANGED poolVars]_vars
    /\ [][exit # "none" => UNCHANGED <<exit, poolVars, lsnVars, mainPc>>]_vars

\* C18 witness: the stream failed while one job was pending admission, one
\* was queued and one was in io.Copy with its file still empty.
C18_Witness ==
    /\ exit = "stream"
    /\ Size(spawned) >= 1 /\ Size(queued) >= 1
    /\ \E t \in BagToSet(running) :
          t.pc = "copy" /\ files[t.path] = EmptyFile

BringUpSteps == {"subscribe", "enable", "navigate"}

\* C19: main moves from connect to subscribe, from subscribe to enable,
\* from enable to navigate and from navigate to the loop, each time only
\* when the call succeeded, and in no other way (in the loop it goes from
\* the receive to the body and back); the listener exists and
\* URLs are received only in the loop, that is after Enable and Navigate
\* succeeded; and a failed bring-up call ends the process where it is: the
\* connector is not called again and nothing follows.
C19_BringUpOrder ==
    /\ [][mainPc' # mainPc =>
            /\ <<mainPc, mainPc'>> \in {<<"connect", "subscribe">>,
                                       <<"subscribe", "enable">>,
                                       <<"enable", "navigate">>,
                                       <<"navigate", "loop">>,
                                       <<"loop", "handle">>,
                                       <<"handle", "loop">>}
            /\ exit = "none" /\ exit' = "none"]_vars
    /\ []((lsn # "off" \/ reported # <<>> \/ consumed # <<>> \/ created # EmptyBag)
            => InLoop)
    /\ [](exit \in BringUpSteps =>
            /\ mainPc = exit /\ lsn = "off"
            /\ attempts = failures + 1)
    /\ [][(exit \in BringUpSteps) => UNCHANGED vars]_vars

\* C19 witness: after a failed and a successful connect attempt the three
\* bring-up calls succeeded and the loop has received a URL.
C19_Witness ==
    /\ mainPc = "loop" /\ exit = "none"
    /\ failures = 1 /\ attempts = 2
    /\ Len(consumed) = 1 /\ lsn = "wait"

\* C20: the main loop never logs an error of enqueueDownload, whose result
\* is nil for every call; a job QueueTask rejected is never started (its
\* copies rejected and started together are no more than those created);
\* and the rejection is a step of the admission goroutine alone: the main
\* loop, the listener, the queue and the workers are as before and the
\* process runs on.
C20_EnqueueAlwaysNil ==
    /\ [](logged = 0)
    /\ [](\A j \in BagToSet(rejected) :
            CopiesIn(j, rejected) + CopiesIn(j, started) <= CopiesIn(j, created))
    /\ [][rejected' # rejected =>
            /\ exit = "none"
            /\ UNCHANGED <<mainPc, exit, lsnVars, logged, queued, running,
                           started, created, outcomes, files>>]_vars

\* C20 witness: QueueTask rejected a job, nothing was logged, and the loop
\* has since received the remaining events and another job was downloaded.
C20_Witness ==
    /\ exit = "none" /\ logged = 0
    /\ Size(rejected) >= 1
    /\ Len(consumed) = MaxEvents
    /\ \E o \in outcomes : o.err = "none"
    /\ spawned = EmptyBag /\ queued = EmptyBag /\ running = EmptyBag

====
